---------------------------- MODULE Spec2Model ----------------------------
(***************************************************************************)
(* A model of the manga-metadata tools: the Metadata record and its XML    *)
(* form (common.py), the archive rewrite (common.py), the candidate        *)
(* selection of the fetch command (fetch.py) and the batch updater         *)
(* (update.py).                                                            *)
(*                                                                         *)
(* Python values: a str is a TLA+ string, except where its characters are  *)
(* inspected (typed input, titles, ids), where it is a sequence of         *)
(* one-character strings.  None is the value None below, distinct from     *)
(* every modelled str.  A dict is a function whose DOMAIN is its key set.  *)
(***************************************************************************)
EXTENDS Integers, Sequences, FiniteSets, TLC

VARIABLES
    mode,        \* which program run the behaviour is of
    pc,          \* position of the running program
    rec,         \* Metadata._data of the record operated on (self)
    before,      \* rec as it was before the latest operation (history)
    other,       \* Metadata._data of the second record (other)
    doc,         \* the XML text last produced by to_xml
    parsed,      \* Metadata._data of the record last returned by from_xml
    disk,        \* the file at the archive's path
    temp,        \* the file at temp_path inside the temporary directory
    orig,        \* the archive as it was before the run (history)
    npaths,      \* update.main: len(args.paths)
    args,        \* update.main: args.no_clobber, args.use_first
    idx,         \* update.main: number of paths taken from args.paths
    exit_status, \* update.main: the running sum of return codes
    last,        \* update.main: what the latest update call did (history)
    nfailed,     \* update.main: number of paths whose update failed (history)
    os_status,   \* the status the operating system reports for the process
    query,       \* fetch: the name searched for
    results,     \* fetch: what source.search returned
    use_first,   \* fetch: config['use_first']
    sim_results, \* _pick_result: the ranked list
    picked,      \* _pick_result: its return value, or why it has none
    fetch_ret,   \* fetch: its return value
    hist         \* fetch: what has happened so far (history)

vars == <<mode, pc, rec, before, other, doc, parsed, disk, temp, orig, npaths,
          args, idx, exit_status, last, nfailed, os_status, query, results,
          use_first, sim_results, picked, fetch_ret, hist>>

recVars == <<rec, before, other, doc, parsed>>
zipVars == <<disk, temp, orig>>
batchVars == <<npaths, args, idx, exit_status, last, nfailed, os_status>>
fetchVars == <<query, results, use_first, sim_results, picked, fetch_ret, hist>>

-----------------------------------------------------------------------------
(* Bounds of the model. *)

\* longest args.paths of the detailed batch runs
MaxPaths == 3
\* longest args.paths of the exit-status runs
MaxBatch == 256
\* longest search result list
MaxResults == 3
\* most lines the user types at one prompt
MaxInputs == 3

-----------------------------------------------------------------------------
(* Python values. *)

None == "<None>"

\* The str values metadata fields take in the model.
FieldValues == {None, "", "x"}

-----------------------------------------------------------------------------
(* common.py: Metadata. *)

COMIC_INFO_KEY_ORDER ==
    << "Title", "Series", "Number", "Count", "Volume",
       "AlternateSeries", "AlternateNumber", "AlternateCount",
       "Summary", "Notes", "Year", "Month", "Day",
       "Writer", "Penciller", "Inker", "Colorist", "Letterer", "CoverArtist",
       "Editor", "Publisher",
       "Imprint", "Genre", "Web", "PageCount", "LanguageISO", "Format",
       "BlackAndWhite", "Manga",
       "Characters", "Teams", "Locations", "ScanInformation", "StoryArc",
       "SeriesGroup", "AgeRating",
       "Pages", "CommunityRating", "MainCharacterOrTeam", "Review" >>

KeyOrderSet == {COMIC_INFO_KEY_ORDER[i] : i \in DOMAIN COMIC_INFO_KEY_ORDER}

\* dict.update: every key of b is set in a to b's value, the rest of a stays.
dict_update(a, b) ==
    [k \in (DOMAIN a) \cup (DOMAIN b) |-> IF k \in DOMAIN b THEN b[k] ELSE a[k]]

\* Metadata.__init__: the two default fields, then the given data over them.
MetadataDefaults == [k \in {"Manga", "Notes"} |-> IF k = "Manga" THEN "Yes" ELSE "{}"]

Metadata(data) == dict_update(MetadataDefaults, data)

\* Metadata.update(self, other): self._data.update(other._data).
Metadata_update_replacing(self, oth) == oth

Metadata_update(self, oth) == dict_update(self, oth)

\* Metadata.copy
Metadata_copy(self) == Metadata(self)

\* Metadata.__setitem__
Metadata_setitem(self, key, value) ==
    [k \in (DOMAIN self) \cup {key} |-> IF k = key THEN value ELSE self[k]]

\* The Notes field holds a JSON object as text.  The objects of the model
\* and the text json.dumps writes for each.
NotesWithScan == "{\"scan\": \"s\"}"
NotesWithNoNames == "{\"associated_names\": []}"
NotesWithNames == "{\"associated_names\": [\"n\"]}"

JsonObjects ==
    { [text |-> "{}", keys |-> {}, names |-> << >>],
      [text |-> NotesWithScan, keys |-> {"scan"}, names |-> << >>],
      [text |-> NotesWithNoNames, keys |-> {"associated_names"}, names |-> << >>],
      [text |-> NotesWithNames, keys |-> {"associated_names"}, names |-> << "n" >>],
      [text |-> "{\"scan\": \"s\", \"associated_names\": []}",
       keys |-> {"scan", "associated_names"}, names |-> << >>],
      [text |-> "{\"scan\": \"s\", \"associated_names\": [\"n\"]}",
       keys |-> {"scan", "associated_names"}, names |-> << "n" >>] }

json_loads(text) ==
    LET o == CHOOSE j \in JsonObjects : j.text = text
    IN  [keys |-> o.keys, names |-> o.names]

json_dumps(object) ==
    (CHOOSE j \in JsonObjects : j.keys = object.keys /\ j.names = object.names).text

\* Metadata.put_note; the sources only put the note associated_names.
put_note(self, key, value) ==
    LET notes == json_loads(self["Notes"])
        added == [keys |-> notes.keys \cup {key},
                  names |-> IF key = "associated_names" THEN value ELSE notes.names]
    IN  Metadata_setitem(self, "Notes", json_dumps(added))

\* One child element as ElementTree.tostring writes it: an element whose
\* text is None or '' is written in the short form <Key />, any other as
\* <Key>text</Key>.
Element(key, text) ==
    IF text = None \/ text = ""
    THEN [tag |-> key, short |-> TRUE, text |-> ""]
    ELSE [tag |-> key, short |-> FALSE, text |-> text]

\* The text the XML parser gives a child element: None for <Key />.
ElementText(e) == IF e.short THEN None ELSE e.text

\* Metadata.to_xml: one child per key of COMIC_INFO_KEY_ORDER that is in
\* _data, in that order.  The result is the serialized document, as the
\* sequence of its child elements.
RECURSIVE to_xml_from(_, _)
to_xml_from(self, i) ==
    IF i > Len(COMIC_INFO_KEY_ORDER) THEN << >>
    ELSE LET key == COMIC_INFO_KEY_ORDER[i]
         IN  IF key \notin DOMAIN self
             THEN to_xml_from(self, i + 1)
             ELSE << Element(key, self[key]) >> \o to_xml_from(self, i + 1)

to_xml(self) == to_xml_from(self, 1)

\* Metadata.from_xml: data[child.tag] = child.text for each child in
\* document order (a later child of the same tag wins), then Metadata(data).
RECURSIVE from_xml_data(_, _)
from_xml_data(text, n) ==
    IF n = 0 THEN << >>
    ELSE LET data == from_xml_data(text, n - 1)
             child == text[n]
         IN  Metadata_setitem(data, child.tag, ElementText(child))

from_xml(text) == Metadata(from_xml_data(text, Len(text)))

-----------------------------------------------------------------------------
(* The records of the model. *)

\* A Notes value with one note in it, as json.dumps writes it.
\* Fields a record may or may not have.  Tags is set by the source's
\* _parse_tags and is not in COMIC_INFO_KEY_ORDER.
OptionalKeys == {"Title", "Volume", "Tags"}

Records ==
    { Metadata(dict_update(d, [k \in {"Manga", "Notes"} |->
                                 IF k = "Manga" THEN m ELSE n])) :
        d \in UNION { [S -> FieldValues] : S \in SUBSET OptionalKeys },
        m \in {"Yes", "No"},
        n \in {"{}", NotesWithScan} }

-----------------------------------------------------------------------------
(* common.py: the archive and its rewrite.                                 *)
(*                                                                         *)
(* A member name is the sequence of the pieces it is written with, cut so  *)
(* that the text ComicInfo.xml is always one piece: ComicInfo.xml itself   *)
(* is <<"ComicInfo.xml">>, extras/ComicInfo.xml is                         *)
(* <<"extras/", "ComicInfo.xml">>.  A zip file is the sequence of its      *)
(* members, in the order of its central directory.                         *)

METADATA_FILENAME == << "ComicInfo.xml" >>

\* The text METADATA_FILENAME_REGEX = r'ComicInfo\.xml' matches.
METADATA_FILENAME_REGEX == "ComicInfo.xml"

\* re.search(filename_regex, filename) is not None: the pattern is not
\* anchored, it is found anywhere in the name.
re_search(filename_regex, filename) ==
    \E i \in DOMAIN filename : filename[i] = filename_regex

\* What a path holds.
NoFile == [state |-> "absent"]
ZipFile(members) == [state |-> "zip", members |-> members]
\* A file that is being written: a truncated copy, or a zip whose central
\* directory has been overwritten by a member not yet closed.
PartialFile == [state |-> "partial"]

XmlData(text) == [kind |-> "xml", text |-> text]
BinData(n) == [kind |-> "bin", id |-> n]
\* A member with no byte in it.
EmptyData == [kind |-> "empty"]

\* ZipFile.getinfo(name) raises KeyError
HasMember(members, filename) == \E i \in DOMAIN members : members[i].filename = filename

\* ZipFile.read(name)
ReadMember(members, filename) ==
    members[CHOOSE i \in DOMAIN members :
                /\ members[i].filename = filename
                /\ \A j \in DOMAIN members : members[j].filename = filename => j <= i].data

\* Metadata.from_cbz: the record and whether the archive has the entry,
\* or the exception it raises: the bytes of an image are not UTF-8
\* (decode raises), and the empty text is no XML document (fromstring
\* raises).
from_cbz(members) ==
    IF ~HasMember(members, METADATA_FILENAME)
    THEN [metadata |-> Metadata(<< >>), exists |-> FALSE, raised |-> ""]
    ELSE LET data == ReadMember(members, METADATA_FILENAME)
         IN  IF data.kind = "bin"
             THEN [metadata |-> << >>, exists |-> TRUE, raised |-> "UnicodeDecodeError"]
             ELSE IF data.kind = "empty"
             THEN [metadata |-> << >>, exists |-> TRUE, raised |-> "ParseError"]
             ELSE [metadata |-> from_xml(data.text), exists |-> TRUE, raised |-> ""]

\* remove_from_zipfile, the archive written at temp_path: every item of
\* the old archive whose name the pattern is not found in, with the data
\* old_archive.read finds under the item's name.
KeepItem(filename_regex, item) == ~re_search(filename_regex, item.filename)

remove_from_zipfile(members, filename_regex) ==
    LET Keep(item) == KeepItem(filename_regex, item)
        kept == SelectSeq(members, Keep)
    IN  [i \in DOMAIN kept |->
            [filename |-> kept[i].filename,
             data |-> ReadMember(members, kept[i].filename)]]

remove_metadata_from_zipfile(members) ==
    remove_from_zipfile(members, METADATA_FILENAME_REGEX)

\* update.py: the entry written through ZipFile(path, 'a').
MetadataEntry(new_metadata) ==
    [filename |-> METADATA_FILENAME, data |-> XmlData(to_xml(new_metadata))]

AppendMetadata(members, new_metadata) ==
    Append(members, MetadataEntry(new_metadata))

\* update.py: the whole commit, when nothing interrupts it.
commit(members, new_metadata) ==
    AppendMetadata(remove_metadata_from_zipfile(members), new_metadata)

-----------------------------------------------------------------------------
(* The archives of the model. *)

\* Metadata entries an archive may come with.
OldRecords ==
    { Metadata([k \in {"Title", "Volume"} |-> "x"]),
      Metadata([k \in {"Title", "Notes"} |-> IF k = "Title" THEN "" ELSE NotesWithScan]) }

MemberPool ==
    { [filename |-> << "001.png" >>, data |-> BinData(1)],
      [filename |-> << "extras/", "ComicInfo.xml" >>, data |-> BinData(2)] }
    \cup { [filename |-> METADATA_FILENAME, data |-> XmlData(to_xml(r))] : r \in OldRecords }
    \cup { [filename |-> METADATA_FILENAME, data |-> EmptyData],
           [filename |-> METADATA_FILENAME, data |-> BinData(3)] }

\* Every sequence of members of the pool with no name twice, and two
\* archives with a name twice.
Archives ==
    { a \in UNION { [1..n -> MemberPool] : n \in 0..3 } :
        \A i, j \in DOMAIN a : i # j => a[i].filename # a[j].filename }
    \cup { << [filename |-> << "001.png" >>, data |-> BinData(1)],
              [filename |-> << "001.png" >>, data |-> BinData(4)] >>,
           << [filename |-> << "001.png" >>, data |-> BinData(1)],
              [filename |-> << "001.png" >>, data |-> BinData(4)],
              [filename |-> METADATA_FILENAME, data |-> EmptyData] >> }

-----------------------------------------------------------------------------
(* Text whose characters matter: a sequence of one-character strings. *)

\* ord(c) for the characters of the model.
Ord(c) ==
    CASE c = " " -> 32  [] c = "!" -> 33  [] c = "(" -> 40  [] c = ")" -> 41
      [] c = "-" -> 45
      [] c = "0" -> 48  [] c = "1" -> 49  [] c = "2" -> 50  [] c = "3" -> 51
      [] c = "4" -> 52
      [] c = "A" -> 65  [] c = "L" -> 76  [] c = "Q" -> 81  [] c = "S" -> 83
      [] c = "a" -> 97  [] c = "b" -> 98  [] c = "d" -> 100 [] c = "e" -> 101
      [] c = "f" -> 102 [] c = "g" -> 103 [] c = "h" -> 104 [] c = "i" -> 105
      [] c = "l" -> 108 [] c = "m" -> 109 [] c = "n" -> 110 [] c = "o" -> 111
      [] c = "q" -> 113 [] c = "r" -> 114 [] c = "s" -> 115 [] c = "t" -> 116
      [] c = "u" -> 117 [] c = "v" -> 118 [] c = "w" -> 119 [] c = "x" -> 120

IsSpace(c) == c = " "
IsDigit(c) == Ord(c) >= 48 /\ Ord(c) <= 57

\* str.lower
LowerChar(c) ==
    CASE c = "A" -> "a" [] c = "L" -> "l" [] c = "Q" -> "q" [] c = "S" -> "s"
      [] OTHER -> c
str_lower(text) == [i \in DOMAIN text |-> LowerChar(text[i])]

\* str.strip
RECURSIVE str_lstrip(_)
str_lstrip(text) ==
    IF text # << >> /\ IsSpace(Head(text)) THEN str_lstrip(Tail(text)) ELSE text

RECURSIVE str_rstrip(_)
str_rstrip(text) ==
    IF text # << >> /\ IsSpace(text[Len(text)])
    THEN str_rstrip(SubSeq(text, 1, Len(text) - 1))
    ELSE text

str_strip(text) == str_rstrip(str_lstrip(text))

\* s < t for two str, as Python compares them.
RECURSIVE StrLess(_, _)
StrLess(s, t) ==
    IF t = << >> THEN FALSE
    ELSE IF s = << >> THEN TRUE
    ELSE IF Head(s) # Head(t) THEN Ord(Head(s)) < Ord(Head(t))
    ELSE StrLess(Tail(s), Tail(t))

\* re.match(r'^\s*-?\d+\s*$', text) is not None
AllDigits(text) == text # << >> /\ \A i \in DOMAIN text : IsDigit(text[i])

IntPattern(text) ==
    LET body == str_strip(text)
    IN  IF body # << >> /\ Head(body) = "-"
        THEN AllDigits(Tail(body))
        ELSE AllDigits(body)

\* int(text), for a text the pattern matches
RECURSIVE DigitsValue(_)
DigitsValue(digits) ==
    IF digits = << >> THEN 0
    ELSE 10 * DigitsValue(SubSeq(digits, 1, Len(digits) - 1))
         + (Ord(digits[Len(digits)]) - 48)

int_of_text(text) ==
    LET body == str_strip(text)
    IN  IF Head(body) = "-" THEN 0 - DigitsValue(Tail(body)) ELSE DigitsValue(body)

-----------------------------------------------------------------------------
(* common.py: get_int. *)

\* What one turn of the loop of get_int does with the line read.
Continue == [returns |-> FALSE, cancelled |-> FALSE, value |-> 0]
ReturnNone == [returns |-> TRUE, cancelled |-> TRUE, value |-> 0]
ReturnInt(value) == [returns |-> TRUE, cancelled |-> FALSE, value |-> value]

get_int_turn(lower, upper, line) ==
    LET text == str_strip(line)
    IN  IF text = << >> THEN Continue
        ELSE IF str_lower(text) \in { <<"q">>, <<"q", "u", "i", "t">> } THEN ReturnNone
        ELSE IF ~IntPattern(text) THEN Continue
        ELSE LET value == int_of_text(text)
             IN  IF value < lower \/ value > upper THEN Continue
                 ELSE ReturnInt(value)

-----------------------------------------------------------------------------
(* fetch.py: _pick_result. *)

Max(a, b) == IF a >= b THEN a ELSE b

\* Length of the longest common subsequence of two str.
RECURSIVE Lcs(_, _)
Lcs(s, t) ==
    IF s = << >> \/ t = << >> THEN 0
    ELSE IF Head(s) = Head(t) THEN 1 + Lcs(Tail(s), Tail(t))
    ELSE Max(Lcs(Tail(s), t), Lcs(s, Tail(t)))

\* Levenshtein.ratio(s, t) = (len(s) + len(t) - distance) / (len(s) + len(t))
\* where a substitution costs 2, that is 2 * Lcs / (len(s) + len(t)); 1.0 for
\* two empty str.  The float is kept as <<numerator, denominator>>.
Levenshtein_ratio(s, t) ==
    IF Len(s) + Len(t) = 0 THEN << 1, 1 >>
    ELSE << 2 * Lcs(s, t), Len(s) + Len(t) >>

ScoreLess(a, b) == a[1] * b[2] < b[1] * a[2]
ScoreEqual(a, b) == a[1] * b[2] = b[1] * a[2]

\* A search result is the tuple (id, title, description).
ResultLess(a, b) ==
    IF a[1] # b[1] THEN StrLess(a[1], b[1])
    ELSE IF a[2] # b[2] THEN StrLess(a[2], b[2])
    ELSE StrLess(a[3], b[3])

\* (score, result) < (score, result), as Python compares tuples.
SimLess(a, b) ==
    IF ~ScoreEqual(a[1], b[1]) THEN ScoreLess(a[1], b[1])
    ELSE ResultLess(a[2], b[2])

\* list.sort(reverse = True): descending, equal elements in their order.
RECURSIVE SortedInsert(_, _)
SortedInsert(sorted, e) ==
    IF sorted = << >> THEN << e >>
    ELSE IF SimLess(Head(sorted), e) THEN << e >> \o sorted
    ELSE << Head(sorted) >> \o SortedInsert(Tail(sorted), e)

RECURSIVE SortReverse(_, _)
SortReverse(list, n) ==
    IF n = 0 THEN << >>
    ELSE SortedInsert(SortReverse(list, n - 1), list[n])

Rank(name, list) ==
    SortReverse([i \in DOMAIN list |->
                    << Levenshtein_ratio(str_lower(name), str_lower(list[i][2])), list[i] >>],
                Len(list))

\* What _pick_result returns, or the exception that leaves it.
NotPicked == [kind |-> "unset"]
PickedNone == [kind |-> "none"]
Picked(id, title) == [kind |-> "pair", id |-> id, title |-> title]
PickFailed == [kind |-> "IndexError"]

\* sim_results[index][1][0], sim_results[index][1][1]
PickIndex(ranked, index) ==
    IF index + 1 \in DOMAIN ranked
    THEN Picked(ranked[index + 1][2][1], ranked[index + 1][2][2])
    ELSE PickFailed

\* _pick_result up to the prompt: whether it ranked, the ranked list,
\* whether it goes on to print the list and call get_int, and what it
\* returns when it does not.
pick_result_ignoring_use_first(name, list, first) ==
    IF Len(list) = 1
    THEN [ranked |-> FALSE, sim_results |-> << >>, prompt |-> FALSE,
          value |-> Picked(list[1][1], list[1][2])]
    ELSE [ranked |-> TRUE, sim_results |-> Rank(name, list), prompt |-> TRUE,
          value |-> NotPicked]

pick_result(name, list, first) ==
    IF Len(list) = 1
    THEN [ranked |-> FALSE, sim_results |-> << >>, prompt |-> FALSE,
          value |-> Picked(list[1][1], list[1][2])]
    ELSE LET ranked == Rank(name, list)
         IN  IF first
             THEN [ranked |-> TRUE, sim_results |-> ranked, prompt |-> FALSE,
                   value |-> PickIndex(ranked, 0)]
             ELSE [ranked |-> TRUE, sim_results |-> ranked, prompt |-> TRUE,
                   value |-> NotPicked]

-----------------------------------------------------------------------------
(* sources.py: MangaUpdates.fetch. *)

\* The str with the characters of a text.
RECURSIVE str_of(_)
str_of(text) == IF text = << >> THEN "" ELSE Head(text) \o str_of(Tail(text))

\* re.sub(r'\s+', ' ', name)
RECURSIVE re_sub_spaces(_)
re_sub_spaces(text) ==
    IF text = << >> THEN << >>
    ELSE IF IsSpace(Head(text)) THEN << " " >> \o re_sub_spaces(str_lstrip(Tail(text)))
    ELSE << Head(text) >> \o re_sub_spaces(Tail(text))

\* list.sort() of a list of str
RECURSIVE InsertAscending(_, _)
InsertAscending(sorted, e) ==
    IF sorted = << >> THEN << e >>
    ELSE IF StrLess(e, Head(sorted)) THEN << e >> \o sorted
    ELSE << Head(sorted) >> \o InsertAscending(Tail(sorted), e)

RECURSIVE list_sort(_)
list_sort(values) ==
    IF values = << >> THEN << >>
    ELSE InsertAscending(list_sort(SubSeq(values, 1, Len(values) - 1)),
                         values[Len(values)])

\* value in values
list_contains(values, value) == \E i \in DOMAIN values : values[i] = value

\* values.remove(value), for a value that is in the list
RECURSIVE list_remove(_, _)
list_remove(values, value) ==
    IF Head(values) = value THEN Tail(values)
    ELSE << Head(values) >> \o list_remove(Tail(values), value)

\* ','.join(values)
RECURSIVE join(_)
join(values) ==
    IF values = << >> THEN ""
    ELSE IF Len(values) = 1 THEN str_of(values[1])
    ELSE str_of(Head(values)) \o "," \o join(Tail(values))

\* A section of a series page: whether its header and the div after it are
\* there, and the lines of the div's text.
NoSection == [found |-> FALSE, lines |-> << >>]
Section(lines) == [found |-> TRUE, lines |-> lines]

\* What _parse_multi_section returns: None, or a list of values.
NoValues == [none |-> TRUE, values |-> << >>]
Values(values) == [none |-> FALSE, values |-> values]

\* _parse_multi_section
parse_multi_section(section) ==
    IF ~section.found THEN NoValues
    ELSE LET cleaned == [i \in DOMAIN section.lines |->
                            str_strip(re_sub_spaces(section.lines[i]))]
             NotEmpty(value) == value # << >>
         IN  Values(list_sort(SelectSeq(cleaned, NotEmpty)))

\* _parse_single_section
parse_single_section(section) ==
    LET values == parse_multi_section(section)
    IN  IF values.none \/ Len(values.values) = 0 THEN None
        ELSE str_of(values.values[1])

SEARCH_SAME_GENRE ==
    << "S", "e", "a", "r", "c", "h", " ", "f", "o", "r", " ", "s", "e",
       "r", "i", "e", "s", " ", "o", "f", " ", "s", "a", "m", "e", " ",
       "g", "e", "n", "r", "e", "(", "s", ")" >>
LOG_IN_TO_VOTE ==
    << "L", "o", "g", " ", "i", "n", " ", "t", "o", " ", "v", "o", "t",
       "e", "!" >>
SHOW_ALL ==
    << "S", "h", "o", "w", " ", "a", "l", "l", " ", "(", "s", "o", "m",
       "e", " ", "h", "i", "d", "d", "e", "n", ")" >>

BASE_FETCH_URL == "https://www.mangaupdates.com/series/"

\* The series pages of the model.  desc_more is the div#div_desc_more and
\* its first content; the other fields but id and title are sections.
Pages ==
    [id : {"1"},
     title : {"x"},
     desc_more : {NoSection, Section(<< << " ", "d", " " >> >>)},
     description : {NoSection, Section(<< << "s" >> >>)},
     year : {NoSection, Section(<< << "1" >> >>)},
     authors : {NoSection, Section(<< << "w" >> >>),
                Section(<< << "w", " ", " ", "a" >>, << " " >>, << "v" >> >>)},
     artists : {Section(<< << "w" >> >>)},
     publishers : {Section(<< << "w" >> >>)},
     associated_names : {NoSection, Section(<< >>), Section(<< << "n" >> >>)},
     genre : {NoSection, Section(<< << "n" >> >>), Section(<< SEARCH_SAME_GENRE >>),
              Section(<< << "n" >>, SEARCH_SAME_GENRE >>)},
     categories : {NoSection, Section(<< << "t" >> >>),
                   Section(<< SHOW_ALL, << "t" >>, LOG_IN_TO_VOTE >>)}]

\* The exception MangaUpdates.fetch ends with on a page, "" when it
\* returns: ','.join(None) is a TypeError, and the removal of a value
\* that is not in the list a ValueError.
fetch_raises(page) ==
    IF \/ parse_multi_section(page.authors).none
       \/ parse_multi_section(page.artists).none
       \/ parse_multi_section(page.publishers).none
    THEN "TypeError"
    ELSE IF /\ ~parse_multi_section(page.genre).none
            /\ ~list_contains(parse_multi_section(page.genre).values, SEARCH_SAME_GENRE)
    THEN "ValueError"
    ELSE ""

\* _parse_tags: the values left of the section Categories.
RECURSIVE remove_values(_, _)
remove_values(values, removed) ==
    IF removed = << >> THEN values
    ELSE remove_values(IF list_contains(values, Head(removed))
                       THEN list_remove(values, Head(removed))
                       ELSE values,
                       Tail(removed))

\* MangaUpdates.fetch on a page it does not raise on, from the record it
\* starts with.
fetch_fields(metadata, page) ==
    LET url == BASE_FETCH_URL \o page.id
        names == parse_multi_section(page.associated_names)
        genre == parse_multi_section(page.genre)
        tags == parse_multi_section(page.categories)
        m1 == Metadata_setitem(metadata, "Title", page.title)
        m2 == Metadata_setitem(m1, "Series", m1["Title"])
        m3 == Metadata_setitem(m2, "Summary",
                  IF page.desc_more.found
                  THEN str_of(str_strip(page.desc_more.lines[1]))
                  ELSE parse_single_section(page.description))
        m4 == Metadata_setitem(m3, "Year", parse_single_section(page.year))
        m5 == Metadata_setitem(m4, "Writer",
                               join(parse_multi_section(page.authors).values))
        m6 == Metadata_setitem(m5, "Penciller",
                               join(parse_multi_section(page.artists).values))
        m7 == Metadata_setitem(m6, "Publisher",
                               join(parse_multi_section(page.publishers).values))
        m8 == Metadata_setitem(m7, "Web", url)
        m9 == IF names.none THEN m8
              ELSE put_note(m8, "associated_names",
                            [i \in DOMAIN names.values |-> str_of(names.values[i])])
        m10 == IF genre.none THEN m9
               ELSE Metadata_setitem(m9, "Genre",
                        join(list_remove(genre.values, SEARCH_SAME_GENRE)))
    IN  IF tags.none THEN m10
        ELSE Metadata_setitem(m10, "Tags",
                 join(remove_values(tags.values, << LOG_IN_TO_VOTE, SHOW_ALL >>)))

\* What a call of MangaUpdates.fetch ends with.
FetchRaised(exception) == [kind |-> "raised", exception |-> exception]
FetchReturned(metadata) == [kind |-> "Metadata", data |-> metadata]

MangaUpdates_fetch_without_defaults(page) ==
    IF fetch_raises(page) # "" THEN FetchRaised(fetch_raises(page))
    ELSE LET m == fetch_fields(Metadata(<< >>), page)
             dropped == IF parse_multi_section(page.associated_names).none
                        THEN {"Manga", "Notes"} ELSE {"Manga"}
         IN  FetchReturned([k \in (DOMAIN m) \ dropped |-> m[k]])

\* MangaUpdates.fetch
MangaUpdates_fetch(page) ==
    IF fetch_raises(page) # "" THEN FetchRaised(fetch_raises(page))
    ELSE FetchReturned(fetch_fields(Metadata(<< >>), page))

-----------------------------------------------------------------------------
(* The searches of the model. *)

Queries == { <<"a">>, <<"A", "b">> }

Candidate(id, title) == << id, title, title \o <<" ", "-">> >>

CandidatePool ==
    { Candidate(id, title) : id \in { <<"1">>, <<"2">> },
                             title \in { <<"a">>, <<"A">>, <<"a", "b">> } }

ResultLists == UNION { [1..n -> CandidatePool] : n \in 0..MaxResults }

\* Lines the user may type at the prompt.
InputLines ==
    { << >>, <<" ">>, <<"q">>, <<"Q", "u", "i", "t">>, <<"x">>, <<"1", "x">>,
      <<"-", "1">>, <<"0">>, <<" ", "1", " ">>, <<"2">>, <<"3">>, <<"4">> }

-----------------------------------------------------------------------------
(* The variables a run does not use stay at these values. *)

IdleRec == rec = << >> /\ before = << >> /\ other = << >> /\ doc = << >> /\ parsed = << >>
IdleZip == disk = << >> /\ temp = << >> /\ orig = << >>
IdleBatch ==
    /\ npaths = 0 /\ args = << >> /\ idx = 0 /\ exit_status = 0
    /\ last = << >> /\ nfailed = 0 /\ os_status = -1
IdleFetch ==
    /\ query = << >> /\ results = << >> /\ use_first = FALSE
    /\ sim_results = << >> /\ picked = << >> /\ fetch_ret = << >> /\ hist = << >>

-----------------------------------------------------------------------------
(* Runs of the Metadata operations on records drawn from Records. *)

InitRecord ==
    /\ mode = "record" /\ pc = "ready"
    /\ rec \in Records
    /\ before = << >> /\ other = << >> /\ doc = << >> /\ parsed = << >>
    /\ IdleZip /\ IdleBatch /\ IdleFetch

\* self.update(other)
RecUpdate ==
    /\ mode = "record" /\ pc = "ready"
    /\ \E b \in Records :
         /\ other' = b
         /\ rec' = Metadata_update(rec, b)
    /\ before' = rec
    /\ pc' = "updated"
    /\ UNCHANGED <<mode, doc, parsed, zipVars, batchVars, fetchVars>>

\* old_metadata.update(fetch_metadata) in update, with the record the
\* source fetched.
RecMergeFetched ==
    /\ mode = "record" /\ pc = "ready"
    /\ \E page \in Pages :
         /\ MangaUpdates_fetch(page).kind = "Metadata"
         /\ other' = MangaUpdates_fetch(page).data
         /\ rec' = Metadata_update(rec, MangaUpdates_fetch(page).data)
    /\ before' = rec
    /\ pc' = "merged"
    /\ UNCHANGED <<mode, doc, parsed, zipVars, batchVars, fetchVars>>

\* MangaUpdates.fetch raises: nothing is merged.
RecFetchRaised ==
    /\ mode = "record" /\ pc = "ready"
    /\ \E page \in Pages : MangaUpdates_fetch(page).kind = "raised"
    /\ pc' = "raised"
    /\ UNCHANGED <<mode, recVars, zipVars, batchVars, fetchVars>>

\* text = self.to_xml()
RecToXml ==
    /\ mode = "record" /\ pc \in {"ready", "updated"}
    /\ doc' = to_xml(rec)
    /\ before' = << >> /\ other' = << >>
    /\ pc' = "serialized"
    /\ UNCHANGED <<mode, rec, parsed, zipVars, batchVars, fetchVars>>

\* Metadata.from_xml(text)
RecFromXml ==
    /\ mode = "record" /\ pc = "serialized"
    /\ parsed' = from_xml(doc)
    /\ pc' = "parsed"
    /\ UNCHANGED <<mode, rec, before, other, doc, zipVars, batchVars, fetchVars>>

NextRecord == RecUpdate \/ RecMergeFetched \/ RecFetchRaised \/ RecToXml \/ RecFromXml

SpecRecord == InitRecord /\ [][NextRecord]_vars

-----------------------------------------------------------------------------
(* Runs of the commit step of update (update.py lines 45-50), on an        *)
(* archive drawn from Archives and a merged record with Volume and Number  *)
(* set.  The process may be interrupted between any two steps.             *)

CommitRecords ==
    { Metadata_setitem(Metadata_setitem(r, "Volume", "3"), "Number", "015") :
        r \in { q \in Records : "Tags" \notin DOMAIN q /\ q["Manga"] = "Yes" } }

InitCommit ==
    /\ mode = "commit" /\ pc = "remove"
    /\ \E a \in Archives :
         /\ from_cbz(a).raised = ""
         /\ disk = ZipFile(a) /\ orig = ZipFile(a)
    /\ temp = NoFile
    /\ rec \in CommitRecords
    /\ before = << >> /\ other = << >> /\ doc = << >> /\ parsed = << >>
    /\ IdleBatch /\ IdleFetch

\* remove_from_zipfile: ZipFile(temp_path, 'w') makes the file at
\* temp_path, which is no archive until it is closed.
ZipOpenTemp ==
    /\ mode = "commit" /\ pc = "remove"
    /\ temp' = PartialFile
    /\ pc' = "writing"
    /\ UNCHANGED <<mode, disk, orig, recVars, batchVars, fetchVars>>

\* remove_from_zipfile: the kept items are written and the new archive
\* at temp_path is closed.
ZipWriteTemp ==
    /\ mode = "commit" /\ pc = "writing"
    /\ temp' = ZipFile(remove_metadata_from_zipfile(disk.members))
    /\ pc' = "move"
    /\ UNCHANGED <<mode, disk, orig, recVars, batchVars, fetchVars>>

\* shutil.move(temp_path, zip_path) when os.rename succeeds.
ZipMoveRename ==
    /\ mode = "commit" /\ pc = "move"
    /\ disk' = temp
    /\ temp' = NoFile
    /\ pc' = "append"
    /\ UNCHANGED <<mode, orig, recVars, batchVars, fetchVars>>

\* shutil.move(temp_path, zip_path) when the temporary directory is on
\* another file system: os.rename fails and the file is copied over the
\* archive, which is truncated first.
ZipMoveCopyBegin ==
    /\ mode = "commit" /\ pc = "move"
    /\ disk' = PartialFile
    /\ pc' = "copying"
    /\ UNCHANGED <<mode, temp, orig, recVars, batchVars, fetchVars>>

\* The copy is complete; temp_path is still there.
ZipMoveCopyEnd ==
    /\ mode = "commit" /\ pc = "copying"
    /\ disk' = temp
    /\ pc' = "unlink"
    /\ UNCHANGED <<mode, temp, orig, recVars, batchVars, fetchVars>>

\* os.unlink(temp_path), the end of shutil.move in its copy branch.
ZipMoveUnlink ==
    /\ mode = "commit" /\ pc = "unlink"
    /\ temp' = NoFile
    /\ pc' = "append"
    /\ UNCHANGED <<mode, disk, orig, recVars, batchVars, fetchVars>>

\* ZipFile(path, 'a'), archive.open(METADATA_FILENAME, 'w'), file.write:
\* the member is written over the central directory.
ZipAppendWrite ==
    /\ mode = "commit" /\ pc = "append"
    /\ doc' = disk.members
    /\ disk' = PartialFile
    /\ pc' = "closing"
    /\ UNCHANGED <<mode, temp, orig, rec, before, other, parsed, batchVars, fetchVars>>

\* Leaving the two with blocks: the central directory is written again,
\* with the new entry in it.
ZipAppendClose ==
    /\ mode = "commit" /\ pc = "closing"
    /\ disk' = ZipFile(AppendMetadata(doc, rec))
    /\ doc' = << >>
    /\ pc' = "done"
    /\ UNCHANGED <<mode, temp, orig, rec, before, other, parsed, batchVars, fetchVars>>

\* The process is killed.
Interrupt ==
    /\ mode = "commit"
    /\ pc \in {"remove", "writing", "move", "copying", "unlink", "append", "closing"}
    /\ pc' = "interrupted"
    /\ UNCHANGED <<mode, zipVars, recVars, batchVars, fetchVars>>

NextCommit ==
    \/ ZipOpenTemp
    \/ ZipWriteTemp
    \/ ZipMoveRename
    \/ ZipMoveCopyBegin
    \/ ZipMoveCopyEnd
    \/ ZipMoveUnlink
    \/ ZipAppendWrite
    \/ ZipAppendClose
    \/ Interrupt

SpecCommit == InitCommit /\ [][NextCommit]_vars

-----------------------------------------------------------------------------
(* Claims about the commit step. *)

\* C2: at every point of update's commit step, an interruption included,
\* the file at the archive's path is either the complete archive as it
\* was before the run or the complete new archive with the new metadata
\* entry in it.
C2_CommitAtomic ==
    mode = "commit" =>
        \/ disk = orig
        \/ disk = ZipFile(commit(orig.members, rec))

\* The members of an archive with a given name.
MembersNamed(members, filename) ==
    { i \in DOMAIN members : members[i].filename = filename }

\* The rebuild took out only the member named ComicInfo.xml.
OthersKept(old, new) ==
    \A i \in DOMAIN old :
        old[i].filename # METADATA_FILENAME =>
            \E j \in DOMAIN new : new[j] = old[i]

\* C13: the rebuild removes exactly the member named ComicInfo.xml, every
\* other member, whatever its name, is in the rebuilt archive with the
\* same content, and after a finished update the archive has exactly one
\* metadata entry.
C13_RebuildFrame ==
    /\ (mode = "commit" /\ temp.state = "zip") =>
          /\ OthersKept(orig.members, temp.members)
          /\ MembersNamed(temp.members, METADATA_FILENAME) = {}
    /\ (mode = "commit" /\ pc = "done") =>
          /\ OthersKept(orig.members, disk.members)
          /\ Cardinality(MembersNamed(disk.members, METADATA_FILENAME)) = 1

-----------------------------------------------------------------------------
(* update.py: update and main. *)

\* Return values of fetch.fetch.
PyNone == [kind |-> "None"]
PyInt(n) == [kind |-> "int", int |-> n]
PyMetadata(data) == [kind |-> "Metadata", data |-> data]

\* What the source and the user would do on a run of fetch.fetch.
FetchEnvs == {"no_results", "cancelled", "ok", "error"}

\* fetch.fetch as a whole: it returns 1 when the search finds nothing, 0
\* when the selection is cancelled, and, after source.fetch and the
\* optional writes, reaches its end and returns None.  An error of the
\* source propagates.
fetch_outcome(env) ==
    CASE env = "no_results" -> [raised |-> "", value |-> PyInt(1)]
      [] env = "cancelled"  -> [raised |-> "", value |-> PyInt(0)]
      [] env = "ok"         -> [raised |-> "", value |-> PyNone]
      [] env = "error"      -> [raised |-> "URLError", value |-> PyNone]

\* def fetch(config): the number of parameters fetch.fetch declares.
fetch_parameters == 1

\* A call of fetch.fetch with the given positional arguments: Python
\* raises TypeError before the body runs unless they fit the parameters.
call_fetch(positional, env) ==
    IF Len(positional) # fetch_parameters
    THEN [raised |-> "TypeError", value |-> PyNone]
    ELSE fetch_outcome(env)

\* int(text) and str(number) on the volume numbers of the model.
py_int(text) ==
    CASE text = "03" -> 3
      [] text = "3"  -> 3
      [] text = "10" -> 10

py_str(number) ==
    CASE number = 3  -> "3"
      [] number = 10 -> "10"

\* The result of re.match on the basename: no match, or its three groups.
NoMatch == [matched |-> FALSE]
Match(name, volume, chapter) ==
    [matched |-> TRUE, name |-> name, volume |-> volume, chapter |-> chapter]

\* What a call of update did: its return value (-1 when it raised), the
\* exception that left it, the archive afterwards, whether it called
\* fetch.fetch, and the record it wrote.
Returned(ret, members, called) ==
    [ret |-> ret, raised |-> "", members |-> members, fetch_called |-> called,
     written |-> << >>]
Raised(exception, members, called) ==
    [ret |-> -1, raised |-> exception, members |-> members, fetch_called |-> called,
     written |-> << >>]
Committed(members, new_metadata) ==
    [ret |-> 0, raised |-> "", members |-> members, fetch_called |-> TRUE,
     written |-> new_metadata]

\* update(path, args).  item is what is at path: whether it is a file,
\* the match of its basename, the members of the archive.
update_removing_first(item, a, env) ==
    IF ~item.isfile THEN Returned(1, item.members, FALSE)
    ELSE IF ~item.match.matched THEN Returned(1, item.members, FALSE)
    ELSE LET old == from_cbz(item.members)
         IN  IF old.raised # "" THEN Raised(old.raised, item.members, FALSE)
             ELSE IF old.exists /\ a.no_clobber
             THEN Returned(0, item.members, FALSE)
             ELSE LET removed == remove_metadata_from_zipfile(item.members)
                      fetched == call_fetch(<< item.match.name, a.cache_dir, a.use_first >>, env)
                  IN  IF fetched.raised # "" THEN Raised(fetched.raised, removed, TRUE)
                      ELSE IF fetched.value = PyNone THEN Returned(1, removed, TRUE)
                      ELSE Raised("AttributeError", removed, TRUE)

update(item, a, env) ==
    IF ~item.isfile THEN Returned(1, item.members, FALSE)
    ELSE IF ~item.match.matched THEN Returned(1, item.members, FALSE)
    ELSE LET old == from_cbz(item.members)
         IN  IF old.raised # "" THEN Raised(old.raised, item.members, FALSE)
             ELSE IF old.exists /\ a.no_clobber
             THEN Returned(0, item.members, FALSE)
             ELSE LET name == item.match.name
                      volume == py_str(py_int(item.match.volume))
                      chapter == item.match.chapter
                      fetched == call_fetch(<< name, a.cache_dir, a.use_first >>, env)
                  IN  IF fetched.raised # ""
                      THEN Raised(fetched.raised, item.members, TRUE)
                      ELSE IF fetched.value = PyNone
                      THEN Returned(1, item.members, TRUE)
                      ELSE IF fetched.value.kind # "Metadata"
                      \* old_metadata.update(fetch_metadata): an int has no _data
                      THEN Raised("AttributeError", item.members, TRUE)
                      ELSE LET merged == Metadata_update(old.metadata, fetched.value.data)
                               new_metadata ==
                                   Metadata_setitem(
                                       Metadata_setitem(Metadata_copy(merged), "Volume", volume),
                                       "Number", chapter)
                           IN  Committed(commit(item.members, new_metadata), new_metadata)

\* sys.exit(status): the operating system keeps the low 8 bits.
sys_exit(status) == status % 256

\* The status of a process that ends on an uncaught exception.
UncaughtExitStatus == 1

-----------------------------------------------------------------------------
(* The paths of the model. *)

Matches == { Match("Attack Titan", "03", "015"), Match("One Piece", "10", "7a") }

\* No file at the path, a file whose name does not parse, a file whose
\* name parses.
Items ==
    { [isfile |-> FALSE, match |-> NoMatch, members |-> << >>] }
    \cup { [isfile |-> TRUE, match |-> m, members |-> a] :
             m \in {NoMatch} \cup Matches, a \in Archives }

\* The paths of the long batches: no file, and an archive that has
\* metadata.
ExitItems ==
    { [isfile |-> FALSE, match |-> NoMatch, members |-> << >>],
      [isfile |-> TRUE, match |-> Match("Attack Titan", "03", "015"),
       members |-> << MetadataEntry(Metadata(<< >>)) >>] }

ArgsSet == [no_clobber : BOOLEAN, use_first : BOOLEAN, cache_dir : {None}]

NoCall == [item |-> << >>, env |-> "", result |-> << >>, status_before |-> 0]

-----------------------------------------------------------------------------
(* Runs of the update command: main over args.paths, then sys.exit. *)

InitBatch ==
    /\ mode = "batch" /\ pc = "loop"
    /\ npaths \in 1..MaxPaths
    /\ args \in ArgsSet
    /\ idx = 0 /\ exit_status = 0 /\ nfailed = 0 /\ os_status = -1
    /\ last = NoCall
    /\ IdleRec /\ IdleZip /\ IdleFetch

\* One turn of the loop of main: exit_status += update(path, args).  An
\* exception that leaves update leaves main.
MainUpdate(items, envs) ==
    /\ pc = "loop" /\ idx < npaths
    /\ \E item \in items, env \in envs :
         LET r == update(item, args, env)
         IN  /\ last' = [item |-> item, env |-> env, result |-> r,
                          status_before |-> exit_status]
             /\ IF r.raised # ""
                THEN /\ pc' = "raised"
                     /\ nfailed' = nfailed + 1
                     /\ UNCHANGED exit_status
                ELSE /\ pc' = "loop"
                     /\ exit_status' = exit_status + r.ret
                     /\ nfailed' = nfailed + (IF r.ret # 0 THEN 1 ELSE 0)
    /\ idx' = idx + 1
    /\ UNCHANGED <<mode, npaths, args, os_status, recVars, zipVars, fetchVars>>

BatchUpdate == mode = "batch" /\ MainUpdate(Items, FetchEnvs)

\* The paths are exhausted: sys.exit(main(_load_args())).
MainReturn ==
    /\ mode \in {"batch", "exit"}
    /\ pc = "loop" /\ idx = npaths
    /\ os_status' = sys_exit(exit_status)
    /\ pc' = "exited"
    /\ UNCHANGED <<mode, npaths, args, idx, exit_status, last, nfailed,
                   recVars, zipVars, fetchVars>>

\* The exception reaches the top of the program.
MainRaise ==
    /\ mode \in {"batch", "exit"}
    /\ pc = "raised"
    /\ os_status' = UncaughtExitStatus
    /\ pc' = "exited"
    /\ UNCHANGED <<mode, npaths, args, idx, exit_status, last, nfailed,
                   recVars, zipVars, fetchVars>>

Next == BatchUpdate \/ MainReturn \/ MainRaise

Spec == InitBatch /\ [][Next]_vars

\* Long batches, for the exit status.
InitExit ==
    /\ mode = "exit" /\ pc = "loop"
    /\ npaths \in {1, 2, MaxBatch}
    /\ args \in ArgsSet
    /\ idx = 0 /\ exit_status = 0 /\ nfailed = 0 /\ os_status = -1
    /\ last = NoCall
    /\ IdleRec /\ IdleZip /\ IdleFetch

ExitUpdate == mode = "exit" /\ MainUpdate(ExitItems, {"error"})

NextExit == ExitUpdate \/ MainReturn \/ MainRaise

SpecExit == InitExit /\ [][NextExit]_vars

-----------------------------------------------------------------------------
(* Claims about the update command. *)

\* C1: in batch mode update is run once for every input path: a failure
\* on one path is caught at that item and counted, and the remaining
\* paths are processed.
C1_EveryPathProcessed ==
    (mode = "batch" /\ pc = "exited") => idx = npaths

\* The latest call of update was on an archive whose filename parses.
UpdatedParsedArchive ==
    /\ mode = "batch" /\ last # NoCall
    /\ last.item.isfile /\ last.item.match.matched

\* C3: for an archive whose filename parses, if the fetch step fails
\* (update called fetch and did not end in done), every member of the
\* archive, its metadata entry included, is as it was before the run.
C3_FetchFailureLeavesArchive ==
    (/\ UpdatedParsedArchive
     /\ last.result.fetch_called
     /\ (last.result.raised # "" \/ last.result.ret # 0))
        => last.result.members = last.item.members

\* An update of an archive with a metadata entry and another member, whose
\* fetch step failed where the search would have found nothing.
C3_Witness ==
    /\ UpdatedParsedArchive
    /\ last.result.fetch_called /\ last.result.raised # ""
    /\ last.env = "no_results"
    /\ HasMember(last.item.members, METADATA_FILENAME)
    /\ Len(last.item.members) >= 2

\* C4: for an archive with a parseable filename that has a metadata
\* entry, update with no_clobber set leaves the archive unchanged, does
\* not call fetch (no search, selection or fetch), returns 0 and adds
\* nothing to the exit status.
C4_NoClobber ==
    (/\ UpdatedParsedArchive
     /\ args.no_clobber
     /\ HasMember(last.item.members, METADATA_FILENAME))
        => /\ last.result.members = last.item.members
           /\ ~last.result.fetch_called
           /\ last.result.raised = "" /\ last.result.ret = 0
           /\ (pc = "loop" => exit_status = last.status_before)

\* C5: for an archive whose filename parses, that is not skipped, whose
\* search finds a candidate, whose selection is not cancelled and whose
\* fetch succeeds, update returns 0 and the metadata entry of the archive
\* has Volume and Number equal to the volume and chapter of the filename.
C5_DoneWithVolumeAndNumber ==
    (/\ UpdatedParsedArchive
     /\ ~(args.no_clobber /\ HasMember(last.item.members, METADATA_FILENAME))
     /\ last.env = "ok")
        => /\ last.result.raised = "" /\ last.result.ret = 0
           /\ HasMember(last.result.members, METADATA_FILENAME)
           /\ LET new == from_cbz(last.result.members).metadata
              IN  /\ new["Volume"] = py_str(py_int(last.item.match.volume))
                  /\ new["Number"] = last.item.match.chapter

\* C7: the exit status of the update command is not zero whenever at
\* least one input path failed.
C7_NonZeroExit ==
    (mode = "exit" /\ pc = "exited" /\ nfailed >= 1) => os_status # 0

-----------------------------------------------------------------------------
(* Runs of the fetch command: fetch.fetch(config). *)

NoHistory ==
    [ranked |-> FALSE, prompted |-> FALSE, ninputs |-> 0,
     source_fetched |-> FALSE, written |-> FALSE]

InitFetch ==
    /\ mode = "fetch" /\ pc = "start"
    /\ query \in Queries
    /\ use_first \in BOOLEAN
    /\ results = << >> /\ sim_results = << >>
    /\ picked = NotPicked
    /\ fetch_ret = << >>
    /\ hist = NoHistory
    /\ IdleRec /\ IdleZip /\ IdleBatch

\* results = source.search(name); no result returns 1.
FetchSearch ==
    /\ mode = "fetch" /\ pc = "start"
    /\ \E list \in ResultLists :
         /\ results' = list
         /\ IF Len(list) = 0
            THEN fetch_ret' = PyInt(1) /\ pc' = "returned"
            ELSE fetch_ret' = fetch_ret /\ pc' = "pick"
    /\ UNCHANGED <<mode, query, use_first, sim_results, picked, hist,
                   recVars, zipVars, batchVars>>

\* source.search raises (the page cannot be fetched).
FetchSearchError ==
    /\ mode = "fetch" /\ pc = "start"
    /\ pc' = "raised"
    /\ UNCHANGED <<mode, fetchVars, recVars, zipVars, batchVars>>

\* _pick_result(name, results, use_first), up to its return or to the
\* call of get_int(0, len(sim_results), ...).
PickResult ==
    /\ mode = "fetch" /\ pc = "pick"
    /\ LET r == pick_result(query, results, use_first)
       IN  /\ sim_results' = r.sim_results
           /\ hist' = [hist EXCEPT !.ranked = r.ranked, !.prompted = r.prompt]
           /\ picked' = r.value
           /\ pc' = IF r.prompt THEN "prompt"
                    ELSE IF r.value = PickFailed THEN "raised"
                    ELSE "picked"
    /\ UNCHANGED <<mode, query, results, use_first, fetch_ret,
                   recVars, zipVars, batchVars>>

\* One turn of the loop of get_int on a line the user types, and, when
\* get_int returns, the rest of _pick_result.
GetIntLine ==
    /\ mode = "fetch" /\ pc = "prompt"
    /\ \E line \in InputLines :
         LET turn == get_int_turn(0, Len(sim_results), line)
         IN  IF ~turn.returns
             THEN /\ hist.ninputs < MaxInputs
                  /\ hist' = [hist EXCEPT !.ninputs = hist.ninputs + 1]
                  /\ UNCHANGED <<picked, pc>>
             ELSE /\ hist' = [hist EXCEPT !.ninputs = hist.ninputs + 1]
                  /\ picked' = IF turn.cancelled THEN PickedNone
                               ELSE PickIndex(sim_results, turn.value)
                  /\ pc' = IF ~turn.cancelled /\ PickIndex(sim_results, turn.value) = PickFailed
                           THEN "raised" ELSE "picked"
    /\ UNCHANGED <<mode, query, results, use_first, sim_results, fetch_ret,
                   recVars, zipVars, batchVars>>

\* input raises EOFError or KeyboardInterrupt: get_int returns None.
GetIntInterrupted ==
    /\ mode = "fetch" /\ pc = "prompt"
    /\ picked' = PickedNone
    /\ pc' = "picked"
    /\ UNCHANGED <<mode, query, results, use_first, sim_results, fetch_ret, hist,
                   recVars, zipVars, batchVars>>

\* id is None: "No matching result selected.", return 0.
FetchNothingSelected ==
    /\ mode = "fetch" /\ pc = "picked" /\ picked = PickedNone
    /\ fetch_ret' = PyInt(0)
    /\ pc' = "returned"
    /\ UNCHANGED <<mode, query, results, use_first, sim_results, picked, hist,
                   recVars, zipVars, batchVars>>

\* metadata = source.fetch(id), the writes config asks for, and the end
\* of the function: it returns None.
FetchSource ==
    /\ mode = "fetch" /\ pc = "picked" /\ picked.kind = "pair"
    /\ \E writes \in BOOLEAN :
         hist' = [hist EXCEPT !.source_fetched = TRUE, !.written = writes]
    /\ fetch_ret' = PyNone
    /\ pc' = "returned"
    /\ UNCHANGED <<mode, query, results, use_first, sim_results, picked,
                   recVars, zipVars, batchVars>>

\* source.fetch returns and metadata.write_xml(out_path) raises: out_path
\* is a directory, or is in a directory that does not exist.
FetchWriteError ==
    /\ mode = "fetch" /\ pc = "picked" /\ picked.kind = "pair"
    /\ hist' = [hist EXCEPT !.source_fetched = TRUE]
    /\ pc' = "raised"
    /\ UNCHANGED <<mode, query, results, use_first, sim_results, picked, fetch_ret,
                   recVars, zipVars, batchVars>>

\* source.fetch raises.
FetchSourceError ==
    /\ mode = "fetch" /\ pc = "picked" /\ picked.kind = "pair"
    /\ pc' = "raised"
    /\ UNCHANGED <<mode, fetchVars, recVars, zipVars, batchVars>>

\* sys.exit(value): None is status 0, an int its low 8 bits.
sys_exit_value(value) == IF value = PyNone THEN 0 ELSE sys_exit(value.int)

\* sys.exit(main(_load_args())) with what fetch returned.
FetchExit ==
    /\ mode = "fetch" /\ pc = "returned"
    /\ os_status' = sys_exit_value(fetch_ret)
    /\ pc' = "exited"
    /\ UNCHANGED <<mode, fetchVars, recVars, zipVars,
                   npaths, args, idx, exit_status, last, nfailed>>

\* The exception of the search, of the selection or of the source reaches
\* the top of the program.
FetchCrash ==
    /\ mode = "fetch" /\ pc = "raised"
    /\ os_status' = UncaughtExitStatus
    /\ pc' = "crashed"
    /\ UNCHANGED <<mode, fetchVars, recVars, zipVars,
                   npaths, args, idx, exit_status, last, nfailed>>

NextFetch ==
    \/ FetchSearch
    \/ FetchSearchError
    \/ PickResult
    \/ GetIntLine
    \/ GetIntInterrupted
    \/ FetchNothingSelected
    \/ FetchSource
    \/ FetchWriteError
    \/ FetchSourceError
    \/ FetchExit
    \/ FetchCrash

SpecFetch == InitFetch /\ [][NextFetch]_vars

-----------------------------------------------------------------------------
(* Claims about the selection. *)

\* The id and title of some ranked candidate.
IsRankedCandidate(value) ==
    /\ value.kind = "pair"
    /\ \E i \in DOMAIN sim_results :
         value = Picked(sim_results[i][2][1], sim_results[i][2][2])

\* C6: the interactive selection over count >= 2 ranked candidates only
\* resolves to an index in [0, count) or to a cancel: whatever the user
\* types, _pick_result returns the id and title of a ranked candidate or
\* (None, None), and never fails on the chosen index.
C6_SelectionInRange ==
    (mode = "fetch" /\ hist.prompted /\ picked # NotPicked) =>
        (picked = PickedNone \/ IsRankedCandidate(picked))

\* The score of the top of the ranked list is not below any other's.
TopRanked ==
    \A i \in DOMAIN results :
        ~ScoreLess(sim_results[1][1],
                   Levenshtein_ratio(str_lower(query), str_lower(results[i][2])))

\* C8: the prompt is reached only when the candidate list has at least
\* two elements and use_first is false; a one-element list returns that
\* element's id and title without ranking or prompting; with use_first
\* set the top-ranked candidate is returned without prompting.
C8_PromptOnlyWhenAmbiguous ==
    mode = "fetch" =>
        /\ (pc = "prompt" \/ hist.prompted \/ hist.ninputs > 0)
              => (Len(results) >= 2 /\ ~use_first)
        /\ (pc \in {"picked", "returned"} /\ Len(results) = 1)
              => /\ ~hist.ranked /\ ~hist.prompted
                 /\ picked = Picked(results[1][1], results[1][2])
        /\ (pc \in {"picked", "returned"} /\ Len(results) >= 2 /\ use_first)
              => /\ ~hist.prompted
                 /\ TopRanked
                 /\ picked = Picked(sim_results[1][2][1], sim_results[1][2][2])

\* use_first picked the top-ranked of three candidates, which was not the
\* first of the search results, and no prompt was shown.
C8_Witness ==
    /\ mode = "fetch" /\ pc = "picked" /\ use_first
    /\ Len(results) = 3
    /\ picked # Picked(results[1][1], results[1][2])
    /\ ~hist.prompted

\* The selection was cancelled and the command has ended.
CancelledAndEnded ==
    mode = "fetch" /\ pc = "exited" /\ picked = PickedNone

\* The search found nothing and the command has ended.
NoCandidatesAndEnded ==
    mode = "fetch" /\ pc = "exited" /\ Len(results) = 0

\* C11: a cancelled selection makes _pick_result return (None, None); the
\* fetch command then fetches and writes nothing and ends with status 0,
\* the zero-candidates outcome is status 1, and the outcome of a fetch or
\* parse error is distinct from both.
C11_DistinctOutcomes ==
    /\ CancelledAndEnded =>
          /\ ~hist.source_fetched /\ ~hist.written
          /\ fetch_ret = PyInt(0) /\ os_status = 0
    /\ NoCandidatesAndEnded =>
          /\ ~hist.source_fetched /\ ~hist.written
          /\ fetch_ret = PyInt(1) /\ os_status = 1
    /\ (mode = "fetch" /\ pc = "crashed") => os_status \notin {0, 1}

\* Place of a search result in the list source.search returned.
FirstIndex(list, result) ==
    CHOOSE i \in DOMAIN list :
        list[i] = result /\ \A j \in DOMAIN list : list[j] = result => i <= j

\* C12: for a candidate list of length >= 2 the ranked list built in
\* _pick_result is sorted by descending score, and candidates with equal
\* scores are in the relative order they have in the search results.
C12_RankingOrder ==
    (mode = "fetch" /\ hist.ranked) =>
        \A i, j \in DOMAIN sim_results :
            i < j =>
                /\ ~ScoreLess(sim_results[i][1], sim_results[j][1])
                /\ ScoreEqual(sim_results[i][1], sim_results[j][1])
                      => FirstIndex(results, sim_results[i][2])
                            <= FirstIndex(results, sim_results[j][2])

-----------------------------------------------------------------------------
(* Claims about the Metadata record. *)

\* C9: after A.update(B) every field set in B has B's value in A, every
\* field of A not set in B keeps the value it had, and no field that was
\* set in A before the merge is unset after it.
C9_MergeNonDestructive ==
    (mode = "record" /\ pc = "updated") =>
        /\ \A k \in DOMAIN other : k \in DOMAIN rec /\ rec[k] = other[k]
        /\ \A k \in (DOMAIN before) \ (DOMAIN other) :
              k \in DOMAIN rec /\ rec[k] = before[k]
        /\ (DOMAIN before) \subseteq (DOMAIN rec)

\* A merge in which B overwrites a field of A with another value, A has a
\* field B does not set and B has a field A did not have.
C9_Witness ==
    /\ mode = "record" /\ pc = "updated"
    /\ \E k \in (DOMAIN before) \cap (DOMAIN other) : before[k] # other[k]
    /\ (DOMAIN before) \ (DOMAIN other) # {}
    /\ (DOMAIN other) \ (DOMAIN before) # {}

\* Position of a key in COMIC_INFO_KEY_ORDER.
KeyIndex(key) == CHOOSE i \in DOMAIN COMIC_INFO_KEY_ORDER : COMIC_INFO_KEY_ORDER[i] = key

\* The document has one child per set field of the record that is in the
\* key order, in the key order, and no other child.
CanonicalDocument(text, self) ==
    /\ \A i \in DOMAIN text : text[i].tag \in KeyOrderSet \cap DOMAIN self
    /\ \A k \in KeyOrderSet \cap DOMAIN self : \E i \in DOMAIN text : text[i].tag = k
    /\ \A i, j \in DOMAIN text : i < j => KeyIndex(text[i].tag) < KeyIndex(text[j].tag)

\* C10: for a record whose fields all belong to COMIC_INFO_KEY_ORDER,
\* from_xml(to_xml(record)) has the same fields with the same values, a
\* field whose value is empty or None included, and to_xml emits the set
\* fields in the canonical order with the unset fields omitted.
C10_RoundTrip ==
    (mode = "record" /\ pc = "parsed" /\ (DOMAIN rec) \subseteq KeyOrderSet) =>
        /\ parsed = rec
        /\ CanonicalDocument(doc, rec)

\* The keys of the Notes object of a record.
NoteKeys(metadata) == json_loads(metadata["Notes"]).keys

\* C14: merging a fetched record into an archive's record always replaces
\* the Manga flag and the whole Notes object with the fetched record's,
\* so that no note key that only the prior record had is left.
C14_DefaultsReplaced ==
    (mode = "record" /\ pc = "merged") =>
        /\ {"Manga", "Notes"} \subseteq DOMAIN other
        /\ rec["Manga"] = other["Manga"]
        /\ rec["Notes"] = other["Notes"]
        /\ \A k \in NoteKeys(before) \ NoteKeys(other) : k \notin NoteKeys(rec)

\* A merge into a record that was not flagged as manga and had a note
\* the fetched record does not have.
C14_Witness ==
    /\ mode = "record" /\ pc = "merged"
    /\ before["Manga"] = "No" /\ rec["Manga"] = "Yes"
    /\ "scan" \in NoteKeys(before)
    /\ "scan" \notin NoteKeys(rec)
    /\ "associated_names" \in NoteKeys(rec)

=============================================================================
